---- MODULE Spec2Model ----
(***************************************************************************)
(* Model of neural_net.cpp (Layer<S>, Network<S>, ReLuActivation<S>) and   *)
(* of runEpoch in classify_mnist.cpp, for S = double.                      *)
(*                                                                         *)
(* A double is modelled as a binary floating-point number with MantBits    *)
(* significant bits, round-to-nearest-even and gradual underflow at the    *)
(* quantum 2^-FracBits.  A value is held as the integer number of quanta,  *)
(* so 1.0 is Scale.  Every arithmetic operation of the source rounds its   *)
(* exact result to that format, as IEEE 754 arithmetic does.               *)
(*                                                                         *)
(* Only ActivationType::RELU is modelled: the other variants call          *)
(* std::exp, which has no finite counterpart here.                         *)
(***************************************************************************)
EXTENDS Integers, Sequences, FiniteSets, TLC

\* ------------------------------------------------------------------------
\* Bounds of the model
\* ------------------------------------------------------------------------
MantBits == 3
FracBits == 3
MaxLayerCalls == 4
MaxNetworkCalls == 5
MaxImages == 3
MaxBatch == 2
MaxRepeat == 3
MaxEpochs == 1

Scale == 2 ^ FracBits

\* ------------------------------------------------------------------------
\* double arithmetic
\* ------------------------------------------------------------------------
Abs(x) == IF x < 0 THEN 0 - x ELSE x

\* n/d (n >= 0, d > 0) rounded to the nearest integer, ties to even
RNE(n, d) ==
  LET f == n \div d
      r == n % d
  IN  IF 2 * r < d THEN f
      ELSE IF 2 * r > d THEN f + 1
      ELSE f + (f % 2)

RECURSIVE Expo(_, _, _)
\* the least e >= 0 with n/d < 2^(MantBits + e): the exponent of n/d
Expo(n, d, e) == IF n < d * (2 ^ (MantBits + e)) THEN e ELSE Expo(n, d, e + 1)

\* the rational num/den (in quanta, den > 0) rounded to a double
Rnd(num, den) ==
  LET n == Abs(num)
      s == 2 ^ Expo(n, den, 0)
      m == RNE(n, den * s) * s
  IN  IF num < 0 THEN 0 - m ELSE m

FAdd(a, b) == Rnd(a + b, 1)
FSub(a, b) == Rnd(a - b, 1)
FMul(a, b) == Rnd(a * b, Scale)
FDiv(a, b) == IF b < 0 THEN Rnd(0 - (a * Scale), 0 - b) ELSE Rnd(a * Scale, b)

\* conversion of a size_t to double
ToS(n) == Rnd(n * Scale, 1)

\* ------------------------------------------------------------------------
\* ReLuActivation<S>
\* ------------------------------------------------------------------------
ReLuActivation(input) == [j \in 1..Len(input) |-> IF input[j] > 0 THEN input[j] ELSE 0]

ReLuGradient(input) == [j \in 1..Len(input) |-> IF input[j] > 0 THEN Scale ELSE 0]

\* ------------------------------------------------------------------------
\* Layer<S>
\* ------------------------------------------------------------------------
Zeros(n) == [j \in 1..n |-> 0]

\* Mutant: the constructor presets the bias slot of _input to 1
LayerBiasPreset(inSize, outSize, rnd) ==
  [inSize      |-> inSize + 1,
   outSize     |-> outSize,
   sampleCount |-> 0,
   w           |-> [i \in 1..(inSize + 1) |->
                      [j \in 1..outSize |-> FDiv(rnd[i][j], ToS(inSize + 1))]],
   w_grad      |-> [i \in 1..(inSize + 1) |-> Zeros(outSize)],
   input       |-> [i \in 1..(inSize + 1) |-> IF i = inSize + 1 THEN Scale ELSE 0],
   u           |-> Zeros(outSize),
   output      |-> Zeros(outSize)]

\* Layer(inSize, outSize, RELU); rnd[i][j] is the value rg.rand() returns
\* for row i, column j
Layer(inSize, outSize, rnd) ==
  [inSize      |-> inSize + 1,
   outSize     |-> outSize,
   sampleCount |-> 0,
   w           |-> [i \in 1..(inSize + 1) |->
                      [j \in 1..outSize |-> FDiv(rnd[i][j], ToS(inSize + 1))]],
   w_grad      |-> [i \in 1..(inSize + 1) |-> Zeros(outSize)],
   input       |-> Zeros(inSize + 1),
   u           |-> Zeros(outSize),
   output      |-> Zeros(outSize)]

RECURSIVE DotCol(_, _, _, _)
\* the value of _u[j] after the rows 1..i of the loop of forward
DotCol(inp, w, j, i) ==
  IF i = 0 THEN 0
  ELSE FAdd(DotCol(inp, w, j, i - 1), FMul(inp[i], w[i][j]))

\* Mutant: the activation is applied to _input instead of _u
ForwardActivatesInput(lay, input) ==
  LET in1 == Append(input, Scale)
      u1  == [j \in 1..Len(lay.u) |->
                IF j <= lay.outSize THEN DotCol(in1, lay.w, j, lay.inSize) ELSE 0]
  IN  [lay EXCEPT !.input = in1, !.u = u1, !.output = ReLuActivation(in1)]

Forward(lay, input) ==
  LET in1 == Append(input, Scale)
      u1  == [j \in 1..Len(lay.u) |->
                IF j <= lay.outSize THEN DotCol(in1, lay.w, j, lay.inSize) ELSE 0]
  IN  [lay EXCEPT !.input = in1, !.u = u1, !.output = ReLuActivation(u1)]

RECURSIVE DeltaSum(_, _, _, _, _)
\* the value of delta[j] after the columns 1..k of the inner loop of calcDelta
DeltaSum(nextDelta, nextW, grad, j, k) ==
  IF k = 0 THEN 0
  ELSE FAdd(DeltaSum(nextDelta, nextW, grad, j, k - 1),
            FMul(FMul(nextDelta[k], nextW[j][k]), grad[j]))

\* Mutant: the derivative of the activation is left out
CalcDeltaNoGradient(lay, nextDelta, nextW) ==
  LET grad == [j \in 1..lay.outSize |-> Scale]
  IN  [j \in 1..lay.outSize |-> DeltaSum(nextDelta, nextW, grad, j, Len(nextW[j]))]

CalcDelta(lay, nextDelta, nextW) ==
  LET grad == ReLuGradient(lay.u)
  IN  [j \in 1..lay.outSize |-> DeltaSum(nextDelta, nextW, grad, j, Len(nextW[j]))]

\* Mutant: the contribution is added to _w instead of _w_grad
UpdateGradIntoWeights(lay, delta) ==
  [lay EXCEPT
     !.w = [i \in 1..lay.inSize |->
              [j \in 1..lay.outSize |->
                 FAdd(lay.w[i][j], FMul(lay.input[i], delta[j]))]],
     !.sampleCount = lay.sampleCount + 1]

UpdateGrad(lay, delta) ==
  [lay EXCEPT
     !.w_grad = [i \in 1..lay.inSize |->
                   [j \in 1..lay.outSize |->
                      FAdd(lay.w_grad[i][j], FMul(lay.input[i], delta[j]))]],
     !.sampleCount = lay.sampleCount + 1]

\* the quiet NaN that 0.0 / 0 yields, as a value no computation here reaches
NaN == 0 - (2 ^ 30)

\* Mutant: no early return; with no sample the quotient is 0.0 / 0
UpdateParamNoReturn(lay, learningRate) ==
  [lay EXCEPT
     !.w = [i \in 1..lay.inSize |->
              [j \in 1..lay.outSize |->
                 IF lay.sampleCount = 0 THEN NaN
                 ELSE FSub(lay.w[i][j],
                           FDiv(FMul(lay.w_grad[i][j], learningRate),
                                ToS(lay.sampleCount)))]],
     !.w_grad = [i \in 1..lay.inSize |-> Zeros(lay.outSize)],
     !.sampleCount = 0]

\* Mutant: the sum is not divided by _sampleCount
UpdateParamNoAverage(lay, learningRate) ==
  IF lay.sampleCount = 0 THEN lay
  ELSE [lay EXCEPT
          !.w = [i \in 1..lay.inSize |->
                   [j \in 1..lay.outSize |->
                      FSub(lay.w[i][j], FMul(lay.w_grad[i][j], learningRate))]],
          !.w_grad = [i \in 1..lay.inSize |-> Zeros(lay.outSize)],
          !.sampleCount = 0]

\* Mutant: the divisor is _sampleCount + 1
UpdateParamOffByOne(lay, learningRate) ==
  IF lay.sampleCount = 0 THEN lay
  ELSE [lay EXCEPT
          !.w = [i \in 1..lay.inSize |->
                   [j \in 1..lay.outSize |->
                      FSub(lay.w[i][j],
                           FDiv(FMul(lay.w_grad[i][j], learningRate),
                                ToS(lay.sampleCount + 1)))]],
          !.w_grad = [i \in 1..lay.inSize |-> Zeros(lay.outSize)],
          !.sampleCount = 0]

\* Mutant: the accumulator is not zeroed
UpdateParamKeepsGradient(lay, learningRate) ==
  IF lay.sampleCount = 0 THEN lay
  ELSE [lay EXCEPT
          !.w = [i \in 1..lay.inSize |->
                   [j \in 1..lay.outSize |->
                      FSub(lay.w[i][j],
                           FDiv(FMul(lay.w_grad[i][j], learningRate),
                                ToS(lay.sampleCount)))]],
          !.sampleCount = 0]

UpdateParam(lay, learningRate) ==
  IF lay.sampleCount = 0 THEN lay
  ELSE [lay EXCEPT
          !.w = [i \in 1..lay.inSize |->
                   [j \in 1..lay.outSize |->
                      FSub(lay.w[i][j],
                           FDiv(FMul(lay.w_grad[i][j], learningRate),
                                ToS(lay.sampleCount)))]],
          !.w_grad = [i \in 1..lay.inSize |-> Zeros(lay.outSize)],
          !.sampleCount = 0]

\* ------------------------------------------------------------------------
\* Network<S>
\* ------------------------------------------------------------------------
RECURSIVE ForwardLoop(_, _, _)
\* the range-for of Network::forward from layer k on; buffer is its local
ForwardLoop(ls, buffer, k) ==
  IF k > Len(ls) THEN [layers |-> ls, buffer |-> buffer]
  ELSE LET lay == Forward(ls[k], buffer)
       IN  ForwardLoop([ls EXCEPT ![k] = lay], lay.output, k + 1)

NetForward(ls, input) == ForwardLoop(ls, input, 1)

RECURSIVE BackwardLoop(_, _, _, _)
\* the for loop of Network::backward from index l down; calls lists the
\* updateGrad calls made so far as <<layer, delta>> in call order
BackwardLoop(ls, delta, l, calls) ==
  IF l < 1 THEN [layers |-> ls, calls |-> calls]
  ELSE LET d == CalcDelta(ls[l], delta, ls[l + 1].w)
       IN  BackwardLoop([ls EXCEPT ![l] = UpdateGrad(ls[l], d)], d, l - 1,
                        Append(calls, [layer |-> l, delta |-> d]))

RECURSIVE BackwardLoopStale(_, _, _, _)
BackwardLoopStale(ls, delta, l, calls) ==
  IF l < 1 THEN [layers |-> ls, calls |-> calls]
  ELSE LET d == CalcDelta(ls[l], delta, ls[l + 1].w)
       IN  BackwardLoopStale([ls EXCEPT ![l] = UpdateGrad(ls[l], d)], delta, l - 1,
                             Append(calls, [layer |-> l, delta |-> d]))

\* Mutant: the loop keeps passing the delta of the last layer to calcDelta
NetBackwardStaleDelta(ls, target) ==
  LET n     == Len(ls)
      y     == ls[n].output
      delta == [i \in 1..Len(target) |->
                  IF i <= Len(y) THEN FSub(y[i], target[i]) ELSE 0]
  IN  BackwardLoopStale([ls EXCEPT ![n] = UpdateGrad(ls[n], delta)], delta, n - 1,
                        <<[layer |-> n, delta |-> delta]>>)

NetBackward(ls, target) ==
  LET n     == Len(ls)
      y     == ls[n].output
      delta == [i \in 1..Len(target) |->
                  IF i <= Len(y) THEN FSub(y[i], target[i]) ELSE 0]
  IN  BackwardLoop([ls EXCEPT ![n] = UpdateGrad(ls[n], delta)], delta, n - 1,
                   <<[layer |-> n, delta |-> delta]>>)

NetUpdateParam(ls, learningRate) ==
  [l \in 1..Len(ls) |-> UpdateParam(ls[l], learningRate)]

\* ------------------------------------------------------------------------
\* runEpoch helpers (classify_mnist.cpp, mnist.cpp)
\* ------------------------------------------------------------------------
\* MNistDataSet::getImageDouble(i); set.images[i + 1] holds the bytes of image i
GetImageDouble(set, i) ==
  [p \in 1..Len(set.images[i + 1]) |-> FDiv(ToS(set.images[i + 1][p]), ToS(256))]

\* MNistDataSet::getLabel(i)
GetLabel(set, i) == set.labels[i + 1]

\* MNistDataSet::getLabelDouble for a data set of n classes
OneHot(label, n) == [i \in 1..n |-> IF i = label + 1 THEN Scale ELSE 0]

\* std::distance(out.begin(), std::max_element(out.begin(), out.end()))
EstimatedLabel(out) ==
  (CHOOSE i \in 1..Len(out) :
      /\ \A k \in 1..Len(out) : out[k] <= out[i]
      /\ \A k \in 1..(i - 1) : out[k] < out[i]) - 1

\* Mutant: the last sample of the data set does not force an update
BatchBoundaryNoLast(sample, batchSize, numImages) == sample % batchSize = 0

\* the condition under which runEpoch calls net.updateParam after a sample
BatchBoundary(sample, batchSize, numImages) ==
  sample % batchSize = 0 \/ sample = numImages - 1

\* ------------------------------------------------------------------------
\* Values the clients pass in
\* ------------------------------------------------------------------------
Vectors(n, S) == [1..n -> S]
Matrices(rows, cols, S) == [1..rows -> [1..cols -> S]]

\* results of rg.rand(), uniform in [0, 1)
RandVals == {Scale \div 4, (3 * Scale) \div 4}
\* pixel values, in [0, 1)
PixelVals == {0, Scale \div 2}
\* components of the vectors a client of Layer passes
CompVals == {0 - Scale, Scale \div 2}
\* learning rates
Rates == {Scale \div 4, Scale}

\* the draws of one Layer constructor, rnd[i][j] for row i, column j; of all
\* matrices over RandVals the ones whose draws are equal are explored
RandMats(rows, cols) == {[i \in 1..rows |-> [j \in 1..cols |-> r]] : r \in RandVals}

RECURSIVE Networks(_, _)
\* the networks built by addLayer(Layer(t[k], t[k+1], RELU)) for k = 1..n
Networks(t, n) ==
  IF n = 0 THEN {<<>>}
  ELSE {Append(ls, Layer(t[n], t[n + 1], rnd)) :
          ls \in Networks(t, n - 1), rnd \in RandMats(t[n] + 1, t[n + 1])}

LayerShapes == {<<1, 1>>, <<1, 2>>}
NetworkShapes == {<<1, 2>>, <<1, 1, 1, 1>>}
EpochShapes == {<<1, 1, 2>>}

\* the data sets: numImages images of pixels pixel each and their labels,
\* the labels below classes
DataSets(pixels, classes) ==
  {[numImages |-> n,
    images |-> [k \in 1..n |-> [p \in 1..pixels |-> IF (k + v) % 2 = 0 THEN 128 ELSE 0]],
    labels |-> [k \in 1..n |-> ((k + v) \div 2) % classes]] :
     n \in 0..MaxImages, v \in 0..1}

\* ------------------------------------------------------------------------
\* State
\* ------------------------------------------------------------------------
VARIABLES
  mode,     \* the client: "layer" (one Layer object), "network", "epoch"
            \* (runEpoch on a Network), "batch"/"batchDone" (two Layer copies)
  layers,   \* the Layer objects: Network::_layers, or the one Layer
  twin,     \* batch client: the copy of the Layer that gets one updateGrad
  lastOp,   \* the call that returned last
  args,     \* its arguments
  ret,      \* its return value (<<>> for void and for unmodelled values)
  calls,    \* the updateGrad calls of the last Network::backward, in order
  ncalls,   \* number of state-changing calls made so far
  frame,    \* the activation record of runEpoch
  batch     \* batch client: delta, number of updateGrad calls, weights before

vars == <<mode, layers, twin, lastOp, args, ret, calls, ncalls, frame, batch>>

NoArgs == [vec |-> <<>>, mat |-> <<>>, lr |-> 0]
IdleFrame ==
  [pc |-> "idle", sample |-> 0, batchSize |-> 1,
   set |-> [numImages |-> 0, images |-> <<>>, labels |-> <<>>],
   train |-> FALSE, learningRate |-> 0, labelOneHot |-> <<>>,
   numCorrect |-> 0, numWrong |-> 0, runs |-> 0]
NoBatch == [delta |-> <<>>, n |-> 0, w0 |-> <<>>]

ShapesOf(m) ==
  IF m = "layer" THEN LayerShapes
  ELSE IF m = "network" THEN NetworkShapes
  ELSE EpochShapes

InitFor(m) ==
  /\ mode = m
  /\ \E t \in ShapesOf(m) : layers \in Networks(t, Len(t) - 1)
  /\ twin = <<>>
  /\ lastOp = "construct"
  /\ args = NoArgs
  /\ ret = <<>>
  /\ calls = <<>>
  /\ ncalls = 0
  /\ frame = IdleFrame
  /\ batch = NoBatch

Last == layers[Len(layers)]
Pending(ls) == \E l \in 1..Len(ls) : ls[l].sampleCount > 0
Returns(op, a, r) == lastOp' = op /\ args' = a /\ ret' = r

\* ------------------------------------------------------------------------
\* A client of one Layer
\* ------------------------------------------------------------------------
LayerForward(input) ==
  /\ mode = "layer"
  /\ ncalls < MaxLayerCalls
  /\ ncalls' = ncalls + 1
  /\ layers' = <<Forward(layers[1], input)>>
  /\ Returns("Layer.forward", [NoArgs EXCEPT !.vec = input], layers'[1].output)
  /\ UNCHANGED <<mode, twin, calls, frame, batch>>

LayerCalcDelta(nextDelta, nextW) ==
  /\ mode = "layer"
  /\ Returns("Layer.calcDelta", [NoArgs EXCEPT !.vec = nextDelta, !.mat = nextW],
             CalcDelta(layers[1], nextDelta, nextW))
  /\ UNCHANGED <<mode, layers, twin, calls, ncalls, frame, batch>>

LayerUpdateGrad(delta) ==
  /\ mode = "layer"
  /\ ncalls < MaxLayerCalls
  /\ ncalls' = ncalls + 1
  /\ layers' = <<UpdateGrad(layers[1], delta)>>
  /\ Returns("Layer.updateGrad", [NoArgs EXCEPT !.vec = delta], <<>>)
  /\ UNCHANGED <<mode, twin, calls, frame, batch>>

LayerUpdateParam(learningRate) ==
  /\ mode = "layer"
  /\ ncalls < MaxLayerCalls
  /\ ncalls' = ncalls + 1
  /\ layers' = <<UpdateParam(layers[1], learningRate)>>
  /\ Returns("Layer.updateParam", [NoArgs EXCEPT !.lr = learningRate], <<>>)
  /\ UNCHANGED <<mode, twin, calls, frame, batch>>

\* the deltas a client passes to updateGrad
Deltas(n) ==
  {[j \in 1..n |-> c] : c \in CompVals}
    \cup {[j \in 1..n |-> IF j = 1 THEN 0 - Scale ELSE Scale \div 2]}

\* the delta and the weight-matrix rows of a next layer of two units
NextDeltas == {<<0 - Scale, Scale \div 2>>, <<Scale \div 2, Scale \div 2>>}
NextRows == {<<Scale \div 2, 0 - Scale>>, <<Scale \div 2, Scale \div 2>>}

LayerNext ==
  \/ \E input \in Vectors(layers[1].inSize - 1, CompVals) : LayerForward(input)
  \/ \E nextDelta \in NextDeltas :
       \E nextW \in Vectors(layers[1].outSize + 1, NextRows) :
         LayerCalcDelta(nextDelta, nextW)
  \/ \E delta \in Deltas(layers[1].outSize) : LayerUpdateGrad(delta)
  \/ \E learningRate \in Rates : LayerUpdateParam(learningRate)

\* ------------------------------------------------------------------------
\* A client of a Network
\* ------------------------------------------------------------------------
NetworkForward(input) ==
  /\ mode = "network"
  /\ ncalls < MaxNetworkCalls
  /\ ncalls' = ncalls + 1
  /\ LET r == NetForward(layers, input)
     IN  /\ layers' = r.layers
         /\ Returns("Network.forward", [NoArgs EXCEPT !.vec = input], r.buffer)
  /\ UNCHANGED <<mode, twin, calls, frame, batch>>

\* the loss itself (std::log) is not modelled
NetworkCalcLoss(target) ==
  /\ mode = "network"
  /\ Returns("Network.calcLoss", [NoArgs EXCEPT !.vec = target], <<>>)
  /\ UNCHANGED <<mode, layers, twin, calls, ncalls, frame, batch>>

NetworkBackward(target) ==
  /\ mode = "network"
  /\ ncalls < MaxNetworkCalls
  /\ ncalls' = ncalls + 1
  /\ LET r == NetBackward(layers, target)
     IN  /\ layers' = r.layers
         /\ calls' = r.calls
  /\ Returns("Network.backward", [NoArgs EXCEPT !.vec = target], <<>>)
  /\ UNCHANGED <<mode, twin, frame, batch>>

NetworkUpdateParam(learningRate) ==
  /\ mode = "network"
  /\ ncalls < MaxNetworkCalls
  /\ ncalls' = ncalls + 1
  /\ layers' = NetUpdateParam(layers, learningRate)
  /\ Returns("Network.updateParam", [NoArgs EXCEPT !.lr = learningRate], <<>>)
  /\ UNCHANGED <<mode, twin, calls, frame, batch>>

NetworkNext ==
  \/ \E input \in Vectors(layers[1].inSize - 1, PixelVals) : NetworkForward(input)
  \/ \E label \in 0..(Last.outSize - 1) :
       \/ NetworkCalcLoss(OneHot(label, Last.outSize))
       \/ NetworkBackward(OneHot(label, Last.outSize))
  \/ \E learningRate \in Rates : NetworkUpdateParam(learningRate)

\* ------------------------------------------------------------------------
\* runEpoch(net, set, train, learningRate, batchSize)
\* ------------------------------------------------------------------------
\* the loop header: sample++ and the test sample < set.getNumImages()
NextSample(f) ==
  [f EXCEPT !.sample = f.sample + 1,
            !.pc = IF f.sample + 1 < f.set.numImages THEN "forward" ELSE "return"]

RunEpochCall(set, train, learningRate, batchSize) ==
  /\ mode = "epoch"
  /\ frame.pc = "idle"
  /\ frame.runs < MaxEpochs
  /\ frame' = [pc |-> IF 0 < set.numImages THEN "forward" ELSE "return",
               sample |-> 0, batchSize |-> batchSize, set |-> set,
               train |-> train, learningRate |-> learningRate, labelOneHot |-> <<>>,
               numCorrect |-> 0, numWrong |-> 0, runs |-> frame.runs + 1]
  /\ Returns("runEpoch.call", [NoArgs EXCEPT !.lr = learningRate], <<>>)
  /\ UNCHANGED <<mode, layers, twin, calls, ncalls, batch>>

\* lines 16-25
EpochForward ==
  /\ mode = "epoch"
  /\ frame.pc = "forward"
  /\ LET image == GetImageDouble(frame.set, frame.sample)
         r == NetForward(layers, image)
         isCorrect == EstimatedLabel(r.buffer) = GetLabel(frame.set, frame.sample)
     IN  /\ layers' = r.layers
         /\ frame' = [frame EXCEPT
                        !.pc = "loss",
                        !.labelOneHot =
                           OneHot(GetLabel(frame.set, frame.sample), Last.outSize),
                        !.numCorrect = IF isCorrect THEN @ + 1 ELSE @,
                        !.numWrong = IF isCorrect THEN @ ELSE @ + 1]
         /\ Returns("Network.forward", [NoArgs EXCEPT !.vec = image], r.buffer)
  /\ UNCHANGED <<mode, twin, calls, ncalls, batch>>

\* lines 26-29; the loss sums are not modelled
EpochCalcLoss ==
  /\ mode = "epoch"
  /\ frame.pc = "loss"
  /\ frame' = IF frame.train THEN [frame EXCEPT !.pc = "backward"]
              ELSE NextSample(frame)
  /\ Returns("Network.calcLoss", [NoArgs EXCEPT !.vec = frame.labelOneHot], <<>>)
  /\ UNCHANGED <<mode, layers, twin, calls, ncalls, batch>>

\* lines 30-31
EpochBackward ==
  /\ mode = "epoch"
  /\ frame.pc = "backward"
  /\ LET r == NetBackward(layers, frame.labelOneHot)
     IN  /\ layers' = r.layers
         /\ calls' = r.calls
  /\ frame' = IF BatchBoundary(frame.sample, frame.batchSize, frame.set.numImages)
              THEN [frame EXCEPT !.pc = "update"]
              ELSE NextSample(frame)
  /\ Returns("Network.backward", [NoArgs EXCEPT !.vec = frame.labelOneHot], <<>>)
  /\ UNCHANGED <<mode, twin, ncalls, batch>>

\* lines 32-36
EpochUpdateParam ==
  /\ mode = "epoch"
  /\ frame.pc = "update"
  /\ layers' = NetUpdateParam(layers, frame.learningRate)
  /\ frame' = NextSample(frame)
  /\ Returns("Network.updateParam", [NoArgs EXCEPT !.lr = frame.learningRate], <<>>)
  /\ UNCHANGED <<mode, twin, calls, ncalls, batch>>

\* lines 40-42; the returned pair is not modelled
RunEpochReturn ==
  /\ mode = "epoch"
  /\ frame.pc = "return"
  /\ frame' = [frame EXCEPT !.pc = "idle"]
  /\ Returns("runEpoch.return", NoArgs, <<>>)
  /\ UNCHANGED <<mode, layers, twin, calls, ncalls, batch>>

EpochNext ==
  \/ \E set \in DataSets(layers[1].inSize - 1, Last.outSize), train \in BOOLEAN,
        learningRate \in Rates, batchSize \in 1..MaxBatch :
       RunEpochCall(set, train, learningRate, batchSize)
  \/ EpochForward
  \/ EpochCalcLoss
  \/ EpochBackward
  \/ EpochUpdateParam
  \/ RunEpochReturn

\* ------------------------------------------------------------------------
\* A client that copies a Layer, gives the copy one updateGrad(delta) and
\* the original several, then calls updateParam on both
\* ------------------------------------------------------------------------
BatchCopy(delta) ==
  /\ mode = "layer"
  /\ layers[1].sampleCount = 0
  /\ mode' = "batch"
  /\ twin' = <<UpdateGrad(layers[1], delta)>>
  /\ layers' = <<UpdateGrad(layers[1], delta)>>
  /\ batch' = [delta |-> delta, n |-> 1, w0 |-> layers[1].w]
  /\ Returns("Layer.updateGrad", [NoArgs EXCEPT !.vec = delta], <<>>)
  /\ UNCHANGED <<calls, ncalls, frame>>

BatchUpdateGrad ==
  /\ mode = "batch"
  /\ batch.n < MaxRepeat
  /\ layers' = <<UpdateGrad(layers[1], batch.delta)>>
  /\ batch' = [batch EXCEPT !.n = @ + 1]
  /\ Returns("Layer.updateGrad", [NoArgs EXCEPT !.vec = batch.delta], <<>>)
  /\ UNCHANGED <<mode, twin, calls, ncalls, frame>>

BatchUpdateParam(learningRate) ==
  /\ mode = "batch"
  /\ mode' = "batchDone"
  /\ layers' = <<UpdateParam(layers[1], learningRate)>>
  /\ twin' = <<UpdateParam(twin[1], learningRate)>>
  /\ Returns("Layer.updateParam", [NoArgs EXCEPT !.lr = learningRate], <<>>)
  /\ UNCHANGED <<calls, ncalls, frame, batch>>

BatchNext ==
  \/ \E delta \in Deltas(layers[1].outSize) : BatchCopy(delta)
  \/ BatchUpdateGrad
  \/ \E learningRate \in Rates : BatchUpdateParam(learningRate)

Init == \E m \in {"layer", "network", "epoch"} : InitFor(m)

Next == LayerNext \/ BatchNext \/ NetworkNext \/ EpochNext

\* every client
Spec == Init /\ [][Next]_vars

SpecLayer == InitFor("layer") /\ [][LayerNext \/ BatchNext]_vars

SpecNetwork == InitFor("network") /\ [][NetworkNext]_vars

SpecEpoch == InitFor("epoch") /\ [][EpochNext]_vars

\* ------------------------------------------------------------------------
\* Properties
\* ------------------------------------------------------------------------
AllZero(m) == \A i \in 1..Len(m) : \A j \in 1..Len(m[i]) : m[i][j] = 0
UpdateOps == {"Layer.updateParam", "Network.updateParam"}
WeightsOf(ls) == [l \in 1..Len(ls) |-> ls[l].w]

\* C1: a Layer.updateParam call made while sampleCount is 0 leaves the whole
\* layer (weights, gradient accumulators, sampleCount) as it was, whatever the
\* learning rate; the state it leaves again has sampleCount 0, so the same
\* holds of every further call.
UpdateParamNoSamples ==
  [][(lastOp' = "Layer.updateParam" /\ layers[1].sampleCount = 0)
       => layers' = layers]_vars

\* forward, then updateParam with no sample accumulated
UpdateParamNoSamplesWitness ==
  /\ mode = "layer"
  /\ lastOp = "Layer.updateParam"
  /\ ncalls = 2
  /\ layers[1].input[layers[1].inSize] = Scale

\* C2: the weights of no layer change in a step unless the step is an
\* updateParam call made while some layer has sampleCount > 0; in particular
\* forward, calcDelta, updateGrad, calcLoss and backward leave them alone.
OnlyUpdateParamChangesWeights ==
  [][WeightsOf(layers') # WeightsOf(layers)
       => (lastOp' \in UpdateOps /\ Pending(layers))]_vars

\* a backward that accumulated a gradient
OnlyUpdateParamChangesWeightsWitness ==
  /\ mode = "network"
  /\ lastOp = "Network.backward"
  /\ \E l \in 1..Len(layers) : ~AllZero(layers[l].w_grad)

\* C3: one Network.backward call makes exactly one updateGrad call per layer,
\* in the order L, L-1, ..., 1, raising every sampleCount by 1; the first delta
\* is output - target and the delta given to layer l < L is calcDelta of layer
\* l on the delta given to layer l+1 just before and on layer l+1's weights.
BackwardReverseOrder ==
  [][lastOp' = "Network.backward" =>
       LET n == Len(layers)
       IN  /\ \A l \in 1..n : layers'[l].sampleCount = layers[l].sampleCount + 1
           /\ Len(calls') = n
           /\ \A k \in 1..n : calls'[k].layer = n + 1 - k
           /\ calls'[1].delta =
                [i \in 1..Last.outSize |-> FSub(Last.output[i], args'.vec[i])]
           /\ \A k \in 2..n :
                calls'[k].delta =
                  CalcDelta(layers[n + 1 - k], calls'[k - 1].delta,
                            layers[n + 2 - k].w)]_vars

\* a backward through three layers that reaches the first with a delta # 0
BackwardReverseOrderWitness ==
  /\ mode = "network"
  /\ lastOp = "Network.backward"
  /\ Len(layers) = 3
  /\ Len(calls) = 3
  /\ \E j \in 1..Len(calls[3].delta) : calls[3].delta[j] # 0

\* updateGrad x n, updateParam(learningRate) on lay rounds in no operation
\* that involves n: every partial sum k * g of the contribution g, the product
\* of the sum with learningRate, and its quotient by n
Exact(lay, delta, n, learningRate) ==
  \A i \in 1..lay.inSize : \A j \in 1..lay.outSize :
    LET g == FMul(lay.input[i], delta[j])
    IN  /\ \A k \in 1..n : Rnd(k * g, 1) = k * g
        /\ (g * learningRate) % Scale = 0
        /\ Rnd((n * g * learningRate) \div Scale, 1) = (n * g * learningRate) \div Scale
        /\ Rnd((g * learningRate) \div Scale, 1) = (g * learningRate) \div Scale

\* C4 as claimed: n equal updateGrad calls and updateParam give the weights
\* that one updateGrad call and updateParam give.
BatchOfEqualSamples ==
  mode = "batchDone" => layers[1].w = twin[1].w

\* C4 amended: they give the same weights when no rounding occurs in the
\* partial sums, in the product with the learning rate and in the quotient by
\* n.
BatchOfEqualSamplesExact ==
  (mode = "batchDone" /\ Exact(layers[1], batch.delta, batch.n, args.lr))
    => layers[1].w = twin[1].w

\* three equal samples, no rounding, and weights that moved
BatchOfEqualSamplesExactWitness ==
  /\ mode = "batchDone"
  /\ batch.n = 3
  /\ Exact(layers[1], batch.delta, batch.n, args.lr)
  /\ layers[1].w # batch.w0

\* C5: Layer.forward returns outSize values and keeps an input of inSize
\* values that ends in 1, whatever was called before; Network.forward does so
\* in every layer and returns as many values as the last layer has units.
ForwardSizes ==
  /\ lastOp = "Layer.forward" =>
       /\ Len(ret) = layers[1].outSize
       /\ Len(layers[1].input) = layers[1].inSize
       /\ layers[1].input[layers[1].inSize] = Scale
  /\ lastOp = "Network.forward" =>
       /\ Len(ret) = Last.outSize
       /\ \A l \in 1..Len(layers) :
            /\ Len(layers[l].output) = layers[l].outSize
            /\ Len(layers[l].input) = layers[l].inSize
            /\ layers[l].input[layers[l].inSize] = Scale

\* a forward through three layers after a backward and an updateParam
ForwardSizesWitness ==
  /\ mode = "network"
  /\ lastOp = "Network.forward"
  /\ Len(layers) = 3
  /\ ncalls >= 4
  /\ \A l \in 1..3 : layers[l].sampleCount = 0 /\ layers[l].output[1] > 0

\* C6: Layer.updateParam(L) called with sampleCount = n > 0 sets every weight
\* to its old value minus L * accumulator / n, with the accumulator and n as
\* on entry, zeroes the accumulator and sets sampleCount to 0.
UpdateParamAverages ==
  [][(lastOp' = "Layer.updateParam" /\ layers[1].sampleCount > 0) =>
       LET lay == layers[1]
       IN  /\ \A i \in 1..lay.inSize : \A j \in 1..lay.outSize :
                layers'[1].w[i][j] =
                  FSub(lay.w[i][j],
                       FDiv(FMul(args'.lr, lay.w_grad[i][j]), ToS(lay.sampleCount)))
           /\ AllZero(layers'[1].w_grad)
           /\ layers'[1].sampleCount = 0]_vars

\* an update over two samples that moved the weights
UpdateParamAveragesWitness ==
  /\ mode = "batchDone"
  /\ batch.n = 2
  /\ layers[1].w # batch.w0
  /\ layers[1].sampleCount = 0

RECURSIVE WeightedSum(_, _, _)
\* nextDelta[1] * row[1] + ... + nextDelta[k] * row[k]
WeightedSum(nextDelta, row, k) ==
  IF k = 0 THEN 0
  ELSE FAdd(WeightedSum(nextDelta, row, k - 1), FMul(nextDelta[k], row[k]))

BackwardBeforeForward ==
  [][(lastOp' = "Network.backward" /\ ncalls = 0) =>
       \A l \in 1..Len(layers) :
         /\ layers'[l].sampleCount = 1
         /\ AllZero(layers'[l].w_grad)]_vars

\* a backward on a new network of three layers
BackwardBeforeForwardWitness ==
  /\ mode = "network"
  /\ lastOp = "Network.backward"
  /\ ncalls = 1
  /\ Len(layers) = 3
  /\ \E j \in 1..Len(calls[1].delta) : calls[1].delta[j] # 0

\* C9: whenever a Layer has sampleCount 0, every entry of its gradient
\* accumulator is 0.
NoUncountedGradient ==
  \A l \in 1..Len(layers) : layers[l].sampleCount = 0 => AllZero(layers[l].w_grad)

\* an updateParam that cleared a non-zero accumulator
NoUncountedGradientWitness ==
  /\ mode = "batchDone"
  /\ batch.n = 1
  /\ layers[1].w # batch.w0
  /\ layers[1].sampleCount = 0
  /\ AllZero(layers[1].w_grad)

\* C10: when runEpoch returns from a training run over at least one image,
\* every layer has sampleCount 0 and an all-zero gradient accumulator.
EpochLeavesNothingPending ==
  (lastOp = "runEpoch.return" /\ frame.train /\ frame.set.numImages >= 1)
    => \A l \in 1..Len(layers) :
         layers[l].sampleCount = 0 /\ AllZero(layers[l].w_grad)

\* a training run whose last sample is not a multiple of the batch size
EpochLeavesNothingPendingWitness ==
  /\ lastOp = "runEpoch.return"
  /\ frame.train
  /\ frame.batchSize = 2
  /\ frame.set.numImages = 2
  /\ frame.sample = 2

====
